---- MODULE Spec2Model ----
(***************************************************************************)
(* Verification model of knighthacks2025backend.                           *)
(*                                                                         *)
(*   - the flow simulator: the /simulate-flow handler of src/main.py, one  *)
(*     invocation of the handler, every awaited HTTP call split into the   *)
(*     moment the request is issued and the moment its outcome arrives;    *)
(*   - the persona pipeline of src/multi-persona-agent/agent.py: the       *)
(*     roster, one LlmAgent per persona, the ParallelAgent over all of     *)
(*     them and the SequentialAgent [parallel, merger].                    *)
(*                                                                         *)
(* Spec is the flow simulator, PipelineSpec the persona pipeline.          *)
(***************************************************************************)
EXTENDS Integers, Sequences, FiniteSets, TLC

VARIABLES
    \* ---- flow simulator (src/main.py, simulate_flow) ----
    payload,      \* the parsed SimulatePayload of the call (or no payload)
    pc,           \* position of the handler coroutine
    results,      \* the `results` dict, as its insertion-ordered items
    session_id,   \* the local `session_id`
    issued,       \* every request handed to the httpx client, in order
    outstanding,  \* steps whose request is in flight (issued, not completed)
    resp,         \* the local `resp`: the last response received
    \* ---- persona pipeline (src/multi-persona-agent/agent.py) ----
    stage,        \* position of sequential_pipeline_agent
    unit,         \* status of every persona agent's run, by agent name
    merger,       \* status of merger_agent's run
    state,        \* the session state: the output keys written so far
    \* ---- roster construction (agent.py, module level) ----
    rnd,          \* the generator the variable `rnd` is bound to
    generated     \* the descriptors appended so far, in order

flowVars == <<payload, pc, results, session_id, issued, outstanding, resp>>
pipeVars == <<stage, unit, merger, state>>
rosterVars == <<rnd, generated>>
vars == <<payload, pc, results, session_id, issued, outstanding, resp,
          stage, unit, merger, state, rnd, generated>>

(***************************************************************************)
(* JSON values.  Every value is a record of one shape so that any two can  *)
(* be compared: t is the JSON type, v the text of a scalar, and the other  *)
(* fields are the keys of an object the handler looks at.                  *)
(***************************************************************************)
Leaf(t, v) == [t |-> t, v |-> v]
Absent == Leaf("absent", "")
Null == Leaf("null", "")
Str(s) == Leaf("str", s)
Num(s) == Leaf("num", s)

\* Python truthiness of a scalar found under a key (dict.get gives None
\* for an absent key).
LeafTruthy(l) ==
    \/ l.t = "str" /\ l.v # ""
    \/ l.t = "num" /\ l.v # "0"

\* The value under the key "session": t, v as for a scalar; for an object,
\* id is its "id" entry and other says whether it has any other key.
Sess(t, v, id, other) == [t |-> t, v |-> v, id |-> id, other |-> other]
NoSess == Sess("absent", "", Absent, FALSE)
SessTruthy(s) ==
    \/ s.t = "str" /\ s.v # ""
    \/ s.t = "num" /\ s.v # "0"
    \/ s.t = "obj" /\ (s.id # Absent \/ s.other)

JVal(t, v, text, sid, sId, id, sess) ==
    [t |-> t, v |-> v, text |-> text,
     session_id |-> sid, sessionId |-> sId, id |-> id, session |-> sess]
Scalar(t, v) == JVal(t, v, Absent, Absent, Absent, Absent, NoSess)
Obj(sid, sId, id, sess) == JVal("obj", "", Absent, sid, sId, id, sess)
EmptyObj == Obj(Absent, Absent, Absent, NoSess)
TextObj(raw) == JVal("obj", "", Str(raw), Absent, Absent, Absent, NoSess)

JTruthy(j) ==
    CASE j.t = "obj" ->
            \/ j.text # Absent \/ j.session_id # Absent
            \/ j.sessionId # Absent \/ j.id # Absent \/ j.session # NoSess
      [] j.t = "list" -> j.v # "[]"
      [] j.t = "str" -> j.v # ""
      [] j.t = "num" -> j.v # "0"
      [] OTHER -> FALSE

(***************************************************************************)
(* The inputs of one run: what the caller sent and what the target         *)
(* service answers.                                                        *)
(***************************************************************************)
\* SimulatePayload: new_message is None, an empty dict or a message;
\* streaming is None, true or false.  present = FALSE: no JSON body.
Payloads ==
    {[present |-> FALSE, new_message |-> "none", streaming |-> "none"]}
    \cup [present : {TRUE},
          new_message : {"none", "empty", "custom"},
          streaming : {"none", "true", "false"}]

\* Decoded bodies the create-session call can come back with: every
\* combination of absent, falsy and truthy values under the three top-level
\* keys; every shape of "session" where the top-level keys give no id; and
\* every shape of "session" behind a top-level id.
SessionIdLeaves == {Absent, Str(""), Str("sid-a")}
SessionIdCamelLeaves == {Absent, Null, Str("sid-b")}
IdLeaves == {Absent, Num("0"), Str("sess-42")}
SessValues ==
    {NoSess,
     Sess("null", "", Absent, FALSE),
     Sess("str", "abc", Absent, FALSE),
     Sess("obj", "", Absent, FALSE),
     Sess("obj", "", Absent, TRUE),
     Sess("obj", "", Str(""), FALSE),
     Sess("obj", "", Str("sid-d"), FALSE)}
ObjectBodies ==
    {Obj(a, b, c, NoSess) : a \in SessionIdLeaves, b \in SessionIdCamelLeaves,
                            c \in IdLeaves}
    \cup {Obj(a, b, c, s) : a \in {Absent, Str("")}, b \in {Absent, Null},
                            c \in {Absent, Num("0")}, s \in SessValues}
    \cup {Obj(Absent, Absent, Str("sess-42"), s) : s \in SessValues}
OtherBodies ==
    {Scalar("list", "[]"), Scalar("list", "[1]"), Scalar("str", "ok"),
     Scalar("num", "0"), Scalar("num", "7"), Scalar("null", "")}

\* An outcome of one awaited client call: the call raises exc, or returns a
\* response whose body decodes to json, or one whose body is the
\* undecodable text raw.  A response has a status code, 200 unless
\* WithStatus gives another; the client is never asked to raise for it.
Raised(exc) ==
    [kind |-> "raise", exc |-> exc, json |-> EmptyObj, raw |-> "",
     status_code |-> 0]
Decodable(j) ==
    [kind |-> "json", exc |-> "", json |-> j, raw |-> "", status_code |-> 200]
Undecodable(raw) ==
    [kind |-> "text", exc |-> "", json |-> EmptyObj, raw |-> raw,
     status_code |-> 200]
WithStatus(o, code) == [o EXCEPT !.status_code = code]
StatusCodes == {200, 404, 500}

CreateOutcomes ==
    {Raised("ConnectError"), Raised("ReadTimeout")}
    \cup {WithStatus(Decodable(j), code) :
              j \in ObjectBodies \cup OtherBodies, code \in StatusCodes}
    \cup {WithStatus(Undecodable(raw), code) :
              raw \in {"<html>", ""}, code \in StatusCodes}
StepOutcomes ==
    {Raised("ReadTimeout"), Decodable(Scalar("list", "[]")),
     WithStatus(Undecodable("<html>"), 502)}

(***************************************************************************)
(* The handler's helpers.                                                  *)
(***************************************************************************)
\* _safe_json: resp.json(), or {"text": resp.text} when decoding raises.
SafeJsonDropsText(o) == IF o.kind = "json" THEN o.json ELSE EmptyObj
_safe_json(o) == IF o.kind = "json" THEN o.json ELSE TextObj(o.raw)

\* The dict `results`: its items in insertion order.  d[key] = val keeps the
\* position of a key that is already there.
Item(k, v) == [key |-> k, val |-> v]
Keys(d) == {d[i].key : i \in 1..Len(d)}
Get(d, k) == d[CHOOSE i \in 1..Len(d) : d[i].key = k].val
DictSet(d, k, v) ==
    IF k \in Keys(d)
      THEN [i \in 1..Len(d) |-> IF d[i].key = k THEN Item(k, v) ELSE d[i]]
      ELSE Append(d, Item(k, v))
SetDefault(d, k, v) == IF k \in Keys(d) THEN d ELSE Append(d, Item(k, v))

\* The key a step's decoded response is stored under, and the key of its
\* error record.
StepKeyShared(k) ==
    CASE k = 1 -> "create_session"
      [] k = 2 -> "eval_sets"
      [] k = 3 -> "eval_sets"
      [] k = 4 -> "list_sessions"
      [] k = 5 -> "run_sse"
StepKey(k) ==
    CASE k = 1 -> "create_session"
      [] k = 2 -> "eval_sets"
      [] k = 3 -> "eval_results"
      [] k = 4 -> "list_sessions"
      [] k = 5 -> "run_sse"
ErrorKeyOfCreate(k) == "create_session_error"
ErrorKey(k) ==
    CASE k = 1 -> "create_session_error"
      [] k = 2 -> "eval_sets_error"
      [] k = 3 -> "eval_results_error"
      [] k = 4 -> "list_sessions_error"
      [] k = 5 -> "run_sse_error"

\* The request of step k; only /run_sse carries a body the model keeps.
NoBody == [has |-> FALSE, sessionId |-> Absent, newMessage |-> "", streaming |-> FALSE]
Request(k, body) == [step |-> k, body |-> body]

\* Extraction of the session id from the create-session response.
\* crash: the expression raises AttributeError (a .get on a value that is
\* no dict), which no try block of the handler encloses.
DefaultSession == Str("default-session")
Extracted(l) == [crash |-> FALSE, val |-> l]
ExtractCrash == [crash |-> TRUE, val |-> Absent]
SessionIdOfIdFirst(stored) ==
    LET create_json == IF JTruthy(stored) THEN stored ELSE EmptyObj
    IN  IF create_json.t # "obj" THEN ExtractCrash
        ELSE IF LeafTruthy(create_json.id) THEN Extracted(create_json.id)
        ELSE IF LeafTruthy(create_json.session_id) THEN Extracted(create_json.session_id)
        ELSE IF LeafTruthy(create_json.sessionId) THEN Extracted(create_json.sessionId)
        ELSE LET session == IF SessTruthy(create_json.session)
                              THEN create_json.session
                              ELSE Sess("obj", "", Absent, FALSE)
             IN  IF session.t # "obj" THEN ExtractCrash
                 ELSE IF LeafTruthy(session.id) THEN Extracted(session.id)
                 ELSE Extracted(DefaultSession)
SessionIdOf(stored) ==
    LET create_json == IF JTruthy(stored) THEN stored ELSE EmptyObj
    IN  IF create_json.t # "obj" THEN ExtractCrash
        ELSE IF LeafTruthy(create_json.session_id) THEN Extracted(create_json.session_id)
        ELSE IF LeafTruthy(create_json.sessionId) THEN Extracted(create_json.sessionId)
        ELSE IF LeafTruthy(create_json.id) THEN Extracted(create_json.id)
        ELSE LET session == IF SessTruthy(create_json.session)
                              THEN create_json.session
                              ELSE Sess("obj", "", Absent, FALSE)
             IN  IF session.t # "obj" THEN ExtractCrash
                 ELSE IF LeafTruthy(session.id) THEN Extracted(session.id)
                 ELSE Extracted(DefaultSession)

\* run_payload of step 5.
ChosenNewMessage(p) ==
    IF p.present /\ p.new_message = "custom" THEN "custom" ELSE "default"
StreamingAlwaysFalse(p) == FALSE
ChosenStreaming(p) ==
    IF p.present /\ p.streaming # "none" THEN p.streaming = "true" ELSE FALSE
RunPayload(p, sid) ==
    [has |-> TRUE, sessionId |-> sid,
     newMessage |-> ChosenNewMessage(p), streaming |-> ChosenStreaming(p)]

(***************************************************************************)
(* The flow simulator: simulate_flow, from `results = {}` to its return.   *)
(* The coroutine runs alone between two awaits, so each action is the code *)
(* from one await to the next.  pc.at = "call": about to issue the request *)
(* of pc.step; "wait": awaiting it; "final": leaving the client context;   *)
(* "returned": the handler returned results; "raised": an exception left   *)
(* the handler.                                                            *)
(***************************************************************************)
At(a, k) == [at |-> a, step |-> k]

\* resp = await client.post/get(...): the response of step k, as the
\* outcome that returned it.
NoResponse ==
    [step |-> 0, kind |-> "none", json |-> EmptyObj, raw |-> "",
     status_code |-> 0]
Response(k, o) ==
    [step |-> k, kind |-> o.kind, json |-> o.json, raw |-> o.raw,
     status_code |-> o.status_code]

FlowInit ==
    /\ payload \in Payloads
    /\ pc = At("call", 1)
    /\ results = <<>>
    /\ session_id = Absent
    /\ issued = <<>>
    /\ outstanding = {}
    /\ resp = NoResponse

\* `await client.post/get(...)`: the request goes out and the coroutine is
\* suspended until its outcome.
AwaitNone(k) == At("call", k + 1)
Await(k) == At("wait", k)
Issue(k, body) ==
    /\ issued' = Append(issued, Request(k, body))
    /\ outstanding' = outstanding \cup {k}
    /\ pc' = Await(k)

\* 1) client.post(".../sessions", json={})
CreateSessionCall ==
    /\ pc = At("call", 1)
    /\ Issue(1, NoBody)
    /\ UNCHANGED <<payload, results, session_id, resp>>
    /\ UNCHANGED <<pipeVars, rosterVars>>

\* The call returned: store the decoded body, then extract the session id.
CreateSessionReturn(o) ==
    /\ pc = At("wait", 1) /\ 1 \in outstanding
    /\ o.kind # "raise"
    /\ outstanding' = outstanding \ {1}
    /\ resp' = Response(1, o)
    /\ results' = DictSet(results, StepKey(1), _safe_json(o))
    /\ LET got == SessionIdOf(Get(results', StepKey(1)))
       IN  IF got.crash
             THEN pc' = At("raised", 1) /\ session_id' = session_id
             ELSE pc' = At("call", 2) /\ session_id' = got.val
    /\ UNCHANGED <<payload, issued>>
    /\ UNCHANGED <<pipeVars, rosterVars>>

\* The call raised: record the error, set the status and return.
AfterCreateFailureContinue == At("call", 2)
AfterCreateFailure == At("returned", 1)
CreateSessionRaise(o) ==
    /\ pc = At("wait", 1) /\ 1 \in outstanding
    /\ o.kind = "raise"
    /\ outstanding' = outstanding \ {1}
    /\ results' = DictSet(DictSet(results, ErrorKey(1), Str(o.exc)),
                          "status", Str("partial_failure"))
    /\ pc' = AfterCreateFailure
    /\ UNCHANGED <<payload, session_id, issued, resp>>
    /\ UNCHANGED <<pipeVars, rosterVars>>

\* 2) - 4) client.get(...) of eval_sets, eval_results, list_sessions
GetCall(k) ==
    /\ pc = At("call", k)
    /\ Issue(k, NoBody)
    /\ UNCHANGED <<payload, results, session_id, resp>>
    /\ UNCHANGED <<pipeVars, rosterVars>>

GetReturn(k, o) ==
    /\ pc = At("wait", k) /\ k \in outstanding
    /\ o.kind # "raise"
    /\ outstanding' = outstanding \ {k}
    /\ resp' = Response(k, o)
    /\ results' = DictSet(results, StepKey(k), _safe_json(o))
    /\ pc' = At("call", k + 1)
    /\ UNCHANGED <<payload, session_id, issued>>
    /\ UNCHANGED <<pipeVars, rosterVars>>

AfterStepFailure(k) == IF k < 5 THEN At("call", k + 1) ELSE At("final", k)
GetRaise(k, o) ==
    /\ pc = At("wait", k) /\ k \in outstanding
    /\ o.kind = "raise"
    /\ outstanding' = outstanding \ {k}
    /\ results' = DictSet(results, ErrorKey(k), Str(o.exc))
    /\ pc' = AfterStepFailure(k)
    /\ UNCHANGED <<payload, session_id, issued, resp>>
    /\ UNCHANGED <<pipeVars, rosterVars>>

\* 5) client.post("/run_sse", json=run_payload)
RunSseCall ==
    /\ pc = At("call", 5)
    /\ Issue(5, RunPayload(payload, session_id))
    /\ UNCHANGED <<payload, results, session_id, resp>>
    /\ UNCHANGED <<pipeVars, rosterVars>>

RunSseReturn(o) ==
    /\ pc = At("wait", 5) /\ 5 \in outstanding
    /\ o.kind # "raise"
    /\ outstanding' = outstanding \ {5}
    /\ resp' = Response(5, o)
    /\ results' = DictSet(results, StepKey(5), _safe_json(o))
    /\ pc' = At("final", 5)
    /\ UNCHANGED <<payload, session_id, issued>>
    /\ UNCHANGED <<pipeVars, rosterVars>>

RunSseRaise(o) ==
    /\ pc = At("wait", 5) /\ 5 \in outstanding
    /\ o.kind = "raise"
    /\ outstanding' = outstanding \ {5}
    /\ results' = DictSet(results, ErrorKey(5), Str(o.exc))
    /\ pc' = AfterStepFailure(5)
    /\ UNCHANGED <<payload, session_id, issued, resp>>
    /\ UNCHANGED <<pipeVars, rosterVars>>

\* results.setdefault("status", "ok"); return results
FinalStatus ==
    /\ pc.at = "final"
    /\ results' = SetDefault(results, "status", Str("ok"))
    /\ pc' = At("returned", pc.step)
    /\ UNCHANGED <<payload, session_id, issued, outstanding, resp>>
    /\ UNCHANGED <<pipeVars, rosterVars>>

FlowNext ==
    \/ CreateSessionCall
    \/ \E o \in CreateOutcomes : CreateSessionReturn(o)
    \/ \E o \in CreateOutcomes : CreateSessionRaise(o)
    \/ \E k \in 2..4 : GetCall(k)
    \/ \E k \in 2..4, o \in StepOutcomes : GetReturn(k, o)
    \/ \E k \in 2..4, o \in StepOutcomes : GetRaise(k, o)
    \/ RunSseCall
    \/ \E o \in StepOutcomes : RunSseReturn(o)
    \/ \E o \in StepOutcomes : RunSseRaise(o)
    \/ FinalStatus

(***************************************************************************)
(* The persona pipeline: agent.py builds, at import, the roster, one       *)
(* LlmAgent per persona, a ParallelAgent over all of them and a            *)
(* SequentialAgent [all_personas_parallel, merger_agent].                  *)
(***************************************************************************)
\* The model keeps the first NumTypes persona types and at most MaxPerType
\* personas of each.
NumTypes == 2
MaxPerType == 2

PERSONA_TYPE_COUNTS_ONE_MORE ==
    << <<"the_planner", 5>>, <<"the_skeptic", 5>>, <<"the_altruist", 4>>,
       <<"resource_constrained", 4>>, <<"the_elderly", 4>>,
       <<"family_first", 4>>, <<"information_seeker", 4>>,
       <<"community_leader", 4>>, <<"tech_savvy", 4>>,
       <<"the_traditional", 4>>, <<"the_optimist", 4>>, <<"the_anxious", 5>> >>
PERSONA_TYPE_COUNTS_LAST_WINS ==
    << <<"the_planner", 4>>, <<"the_skeptic", 4>>, <<"the_altruist", 4>>,
       <<"resource_constrained", 4>>, <<"the_elderly", 4>>,
       <<"family_first", 4>>, <<"information_seeker", 4>>,
       <<"community_leader", 4>>, <<"tech_savvy", 4>>,
       <<"the_traditional", 4>>, <<"the_optimist", 5>>, <<"the_anxious", 5>> >>
PERSONA_TYPE_COUNTS ==
    << <<"the_planner", 5>>, <<"the_skeptic", 5>>, <<"the_altruist", 4>>,
       <<"resource_constrained", 4>>, <<"the_elderly", 4>>,
       <<"family_first", 4>>, <<"information_seeker", 4>>,
       <<"community_leader", 4>>, <<"tech_savvy", 4>>,
       <<"the_traditional", 4>>, <<"the_optimist", 4>>, <<"the_anxious", 4>> >>

Min(a, b) == IF a < b THEN a ELSE b
TypeCount(t) == Min(PERSONA_TYPE_COUNTS[t][2], MaxPerType)
Types == 1..Min(Len(PERSONA_TYPE_COUNTS), NumTypes)

\* persona_id = f"{ptype}_{i}"
PersonaIdFromZero(ptype, i) == ptype \o "_" \o ToString(i - 1)
PersonaId(ptype, i) == ptype \o "_" \o ToString(i)

RECURSIVE SumSeqTo(_, _)
SumSeqTo(q, n) == IF n = 0 THEN 0 ELSE q[n] + SumSeqTo(q, n - 1)
SumCountsTo(t) ==
    SumSeqTo([k \in 1..Len(PERSONA_TYPE_COUNTS) |-> PERSONA_TYPE_COUNTS[k][2]],
             t)

PERSONA_TYPE_LABELS ==
    [the_planner |-> "The Planner", the_skeptic |-> "The Skeptic",
     the_altruist |-> "The Altruist",
     resource_constrained |-> "Resource Constrained",
     the_elderly |-> "The Elderly", family_first |-> "Family First",
     information_seeker |-> "Information Seeker",
     community_leader |-> "Community Leader", tech_savvy |-> "Tech Savvy",
     the_traditional |-> "The Traditional", the_optimist |-> "The Optimist",
     the_anxious |-> "The Anxious"]

\* random.Random is modelled as a 16-bit linear congruential generator: a
\* generator is its state, every draw advances it by one step, and the draw's
\* value is read from the state it leaves.  random() is in hundredths.
Modulus == 65536
Step(g) == (g * 25173 + 13849) % Modulus
Hundredths(g) == (g * 100) \div Modulus
Choices(g, options, weights) ==
    options[CHOOSE k \in 1..Len(options) :
        /\ Hundredths(g) < SumSeqTo(weights, k)
        /\ k > 1 => Hundredths(g) >= SumSeqTo(weights, k - 1)]
Choice(g, options) == options[1 + (Hundredths(g) * Len(options)) \div 100]
RandInt(g, a, b) == a + (Hundredths(g) * (b - a + 1)) \div 100

\* _rand_for(persona_id): a new generator seeded with a digest of the id.
\* The digest is modelled as a multiplicative hash of the id's place among
\* the ids of the whole table.
IdPlace(persona_id) ==
    CHOOSE n \in 1..SumCountsTo(Len(PERSONA_TYPE_COUNTS)) :
        \E t \in 1..Len(PERSONA_TYPE_COUNTS) :
            \E i \in 1..PERSONA_TYPE_COUNTS[t][2] :
                /\ persona_id = PersonaId(PERSONA_TYPE_COUNTS[t][1], i)
                /\ n = SumCountsTo(t - 1) + i
_rand_for(persona_id) == (IdPlace(persona_id) * 40503 + 7) % Modulus

\* rnd = _rand_for(persona_id): the loop body draws from the new generator,
\* not from the one the variable rnd held.
GeneratorShared(persona_id, current) == current
Generator(persona_id, current) == _rand_for(persona_id)

\* The draws of the loop body, in the order the code makes them; g1, g2, ...
\* are the generator's states after each draw.
Demographics(ptype, g0) ==
    LET g1 == Step(g0)
        race == Choices(g1, <<"hispanic", "white", "black", "asian", "other">>,
                        <<40, 30, 20, 8, 2>>)
        g2 == Step(g1)
        social == Choices(g2, <<"low_income", "middle_income", "high_income">>,
                          <<30, 50, 20>>)
        g3 == Step(g2)
        political == Choice(g3, <<"liberal", "moderate", "conservative">>)
        g4 == Step(g3)
        trust == Choices(g4, <<"low", "medium", "high">>, <<30, 40, 30>>)
        g5 == Step(g4)
        education == Choices(g5, <<"high_school", "some_college", "bachelors",
                                   "graduate">>, <<30, 30, 30, 10>>)
        g6 == Step(g5)
        household == RandInt(g6, 1, 6)
        \* has_children = household >= 3 and rnd.random() < 0.7
        g7 == IF household >= 3 THEN Step(g6) ELSE g6
        has_children == household >= 3 /\ Hundredths(g7) < 70
        \* if social == "low_income": ... elif "middle_income": ... else: ...
        g8 == IF social = "high_income" THEN g7 ELSE Step(g7)
        g9 == IF social = "middle_income" THEN Step(g8) ELSE g8
        has_vehicle ==
            IF social = "low_income" THEN Hundredths(g8) < 66
            ELSE IF social = "middle_income" THEN Hundredths(g8) < 90
            ELSE TRUE
        home_ownership ==
            IF social = "low_income" THEN "rent"
            ELSE IF social = "middle_income"
                   THEN Choices(g9, <<"rent", "own">>, <<30, 70>>)
            ELSE "own"
        \* Adjust for persona type expectations
        g10 == Step(g9)
        g11 == IF ptype \in {"the_planner", "resource_constrained",
                             "the_elderly", "family_first",
                             "information_seeker"}
                 THEN Step(g10) ELSE g10
        g12 == IF ptype = "resource_constrained" THEN Step(g11) ELSE g11
        base == [age |-> 0, race |-> race, socialStatus |-> social,
                 politicalLeaning |-> political, trustInGovernment |-> trust,
                 educationLevel |-> education, householdSize |-> household,
                 hasChildren |-> has_children, hasVehicle |-> has_vehicle,
                 homeOwnership |-> home_ownership]
        adjusted ==
            IF ptype = "the_planner" THEN
                [base EXCEPT !.age = RandInt(g10, 35, 60),
                             !.trustInGovernment = "high",
                             !.educationLevel =
                                 Choice(g11, <<"bachelors", "graduate">>)]
            ELSE IF ptype = "the_skeptic" THEN
                [base EXCEPT !.age = RandInt(g10, 40, 70),
                             !.trustInGovernment = "low"]
            ELSE IF ptype = "resource_constrained" THEN
                [base EXCEPT !.age = RandInt(g10, 25, 65),
                             !.socialStatus = "low_income",
                             !.hasVehicle = Hundredths(g11) < 33,
                             !.homeOwnership = "rent",
                             !.educationLevel =
                                 Choice(g12, <<"high_school", "some_college">>)]
            ELSE IF ptype = "the_elderly" THEN
                [base EXCEPT !.age = RandInt(g10, 65, 85),
                             !.hasVehicle = Hundredths(g11) < 50,
                             !.trustInGovernment = "high"]
            ELSE IF ptype = "family_first" THEN
                [base EXCEPT !.age = RandInt(g10, 28, 50),
                             !.hasChildren = TRUE,
                             !.householdSize = RandInt(g11, 3, 6),
                             !.hasVehicle = TRUE]
            ELSE IF ptype = "information_seeker" THEN
                [base EXCEPT !.age = RandInt(g10, 25, 55),
                             !.educationLevel =
                                 Choice(g11, <<"some_college", "bachelors",
                                               "graduate">>)]
            ELSE IF ptype = "the_anxious" THEN
                [base EXCEPT !.age = RandInt(g10, 20, 60)]
            ELSE IF ptype = "the_optimist" THEN
                [base EXCEPT !.age = RandInt(g10, 18, 60)]
            ELSE [base EXCEPT !.age = RandInt(g10, 18, 75)]
    IN  [demographics |-> adjusted, rnd |-> g12]

\* roster.append({"personaId": ..., "personaType": ..., "personaName": ...,
\*                "demographics": {...}})
Descriptor(ptype, i, g0) ==
    [personaId |-> PersonaId(ptype, i),
     personaType |-> PERSONA_TYPE_LABELS[ptype],
     personaName |-> PERSONA_TYPE_LABELS[ptype] \o " #" \o ToString(i),
     demographics |-> Demographics(ptype, g0).demographics]

\* for ptype, count in PERSONA_TYPE_COUNTS.items():
\*     for i in range(1, count + 1): roster.append({...})
RECURSIVE RosterFrom(_)
RosterFrom(t) ==
    IF t \notin Types THEN <<>>
    ELSE [i \in 1..TypeCount(t) |->
            Descriptor(PERSONA_TYPE_COUNTS[t][1], i,
                       _rand_for(PersonaId(PERSONA_TYPE_COUNTS[t][1], i)))]
         \o RosterFrom(t + 1)
roster == RosterFrom(1)

\* The loop body applied to one (ptype, i) of the table, whatever was
\* generated before it: the module-level variable rnd is bound to the
\* generator, the draws are made, and the descriptor is appended.
MaxGenerated == 4
RosterInit ==
    /\ rnd = 0
    /\ generated = <<>>

GenerateDescriptor(t, i) ==
    /\ Len(generated) < MaxGenerated
    /\ LET ptype == PERSONA_TYPE_COUNTS[t][1]
           g0 == Generator(PersonaId(ptype, i), rnd)
       IN  /\ generated' = Append(generated, Descriptor(ptype, i, g0))
           /\ rnd' = Demographics(ptype, g0).rnd
    /\ UNCHANGED <<flowVars, pipeVars>>

RosterNext == \E t \in Types : \E i \in 1..TypeCount(t) : GenerateDescriptor(t, i)

\* for persona in roster: sub_agents.append(LlmAgent(name=f"{pid}_timeline",
\*     output_key=f"{agent_name}_output", ...))
AgentName(persona) == persona.personaId \o "_timeline"
OutputKeyShared(name) == "timeline_output"
OutputKey(name) == name \o "_output"
sub_agents == [i \in 1..Len(roster) |-> AgentName(roster[i])]
Units == {sub_agents[i] : i \in 1..Len(sub_agents)}

\* ParallelAgent and SequentialAgent are google.adk classes.  A ParallelAgent
\* runs all its sub_agents concurrently, one task each, all created together,
\* and its run ends when every one of them has ended; an exception leaving
\* one sub-agent cancels the tasks still running and leaves the
\* ParallelAgent.  A SequentialAgent runs its sub_agents one after another,
\* each to the end of its run, and an exception leaving one ends its run.
\*
\* ParallelAgent(sub_agents=sub_agents) holds every persona agent: a
\* sub-agent's model call starts as soon as its task runs, whatever the
\* other sub-agents are doing.
\* all_personas_parallel = ParallelAgent(sub_agents=sub_agents): the waves
\* in which the persona agents are dispatched are the one list sub_agents.
WavesOfTwo ==
    [k \in 1..((Len(sub_agents) + 1) \div 2) |->
        SubSeq(sub_agents, 2 * k - 1, Min(2 * k, Len(sub_agents)))]
Waves == << sub_agents >>
Dispatched == {Waves[1][i] : i \in 1..Len(Waves[1])}

Outstanding == {u \in Units : unit[u] = "running"}
MayBeginInBatches(u) ==
    /\ stage = "PARALLEL" /\ unit[u] = "pending"
    /\ Cardinality(Outstanding) < 2
MayBegin(u) == stage = "PARALLEL" /\ unit[u] = "pending"

\* all_personas_parallel is exhausted: every sub-agent's run has ended.
AnyPersonaDone == \E u \in Units : unit[u] = "done"
AllPersonasDone == \A u \in Units : unit[u] = "done"

PipelineInit ==
    /\ stage = "INIT"
    /\ unit = [u \in Units |-> "idle"]
    /\ merger = "idle"
    /\ state = {}

\* root_agent is run: SequentialAgent enters its first sub-agent, the
\* ParallelAgent, which creates the task of every persona agent.
RunPipeline ==
    /\ stage = "INIT"
    /\ stage' = "PARALLEL"
    /\ unit' = [u \in Units |-> IF u \in Dispatched THEN "pending" ELSE "idle"]
    /\ UNCHANGED <<merger, state>>
    /\ UNCHANGED <<flowVars, rosterVars>>

\* A persona agent sends its request to the model.
BeginPersona(u) ==
    /\ MayBegin(u)
    /\ unit' = [unit EXCEPT ![u] = "running"]
    /\ UNCHANGED <<stage, merger, state>>
    /\ UNCHANGED <<flowVars, rosterVars>>

\* The model answered with an object of the output schema: the result is
\* saved in the session state under the agent's output_key.
FinishPersona(u) ==
    /\ stage = "PARALLEL" /\ unit[u] = "running"
    /\ unit' = [unit EXCEPT ![u] = "done"]
    /\ state' = state \cup {OutputKey(u)}
    /\ UNCHANGED <<stage, merger>>
    /\ UNCHANGED <<flowVars, rosterVars>>

\* The model call raised, or its answer does not validate against
\* output_schema: the exception leaves the persona agent, the ParallelAgent
\* cancels the tasks that have not ended and re-raises, and the
\* SequentialAgent's run ends with that exception.
FailPersona(u) ==
    /\ stage = "PARALLEL" /\ unit[u] = "running"
    /\ unit' = [v \in Units |->
                  IF v = u THEN "failed"
                  ELSE IF unit[v] \in {"pending", "running"} THEN "cancelled"
                  ELSE unit[v]]
    /\ stage' = "FAILED"
    /\ UNCHANGED <<merger, state>>
    /\ UNCHANGED <<flowVars, rosterVars>>

\* SequentialAgent moves on to merger_agent once the ParallelAgent's run is
\* exhausted.
StartMerger ==
    /\ stage = "PARALLEL" /\ AllPersonasDone
    /\ stage' = "MERGER"
    /\ merger' = "running"
    /\ UNCHANGED <<unit, state>>
    /\ UNCHANGED <<flowVars, rosterVars>>

FinishMerger ==
    /\ stage = "MERGER" /\ merger = "running"
    /\ merger' = "done"
    /\ state' = state \cup {"final_summary"}
    /\ stage' = "DONE"
    /\ UNCHANGED unit
    /\ UNCHANGED <<flowVars, rosterVars>>

FailMerger ==
    /\ stage = "MERGER" /\ merger = "running"
    /\ merger' = "failed"
    /\ stage' = "FAILED"
    /\ UNCHANGED <<unit, state>>
    /\ UNCHANGED <<flowVars, rosterVars>>

PipelineNext ==
    \/ RunPipeline
    \/ \E u \in Units : BeginPersona(u)
    \/ \E u \in Units : FinishPersona(u)
    \/ \E u \in Units : FailPersona(u)
    \/ StartMerger
    \/ FinishMerger
    \/ FailMerger

(***************************************************************************)
(* Specifications.                                                         *)
(***************************************************************************)
\* One call of /simulate-flow; the pipeline is not run.
Init == FlowInit /\ PipelineInit /\ RosterInit
Next == FlowNext
Spec == Init /\ [][Next]_vars

\* One run of root_agent; no /simulate-flow call is under way.
PipelineStart ==
    /\ PipelineInit
    /\ FlowInit
    /\ RosterInit
    /\ payload = [present |-> FALSE, new_message |-> "none", streaming |-> "none"]
PipelineSpec == PipelineStart /\ [][PipelineNext]_vars

\* The roster's loop body, applied to the ids of the table in any order and
\* any number of times; neither the flow nor the pipeline is run.
RosterSpec == PipelineStart /\ [][RosterNext]_vars

(***************************************************************************)
(* Properties of the flow simulator.                                       *)
(***************************************************************************)
Attempts(k) == Cardinality({i \in 1..Len(issued) : issued[i].step = k})
Attempted(k) == Attempts(k) > 0
HasKey(k) == \E i \in 1..Len(results) : results[i].key = k
ValueOf(k) == results[CHOOSE i \in 1..Len(results) : results[i].key = k].val
SuccessKeys == <<"create_session", "eval_sets", "eval_results", "list_sessions", "run_sse">>
ErrorKeys == <<"create_session_error", "eval_sets_error", "eval_results_error",
               "list_sessions_error", "run_sse_error">>
RunOver == pc.at \in {"returned", "raised"}
RunSseRequests == {i \in 1..Len(issued) : issued[i].step = 5}

C2_AsClaimed ==
    (RunOver /\ HasKey("create_session")) =>
        \A k \in 2..5 :
            /\ Attempts(k) = 1
            /\ HasKey(SuccessKeys[k]) # HasKey(ErrorKeys[k])

\* C3 as claimed: a returned run in which session creation succeeded and one
\* of steps 2-5 failed does not carry the status of an all-success run (ok).
C3_AsClaimed ==
    (/\ pc.at = "returned"
     /\ HasKey("create_session")
     /\ \E k \in 2..5 : HasKey(ErrorKeys[k]))
        => ValueOf("status") # Str("ok")

\* The ordered lookup session_id, sessionId, id, session.id over a decoded
\* body; Usable(l) says which values count as an identifier.
Candidates(b) ==
    IF b.t # "obj" THEN <<>>
    ELSE <<b.session_id, b.sessionId, b.id,
           IF b.session.t = "obj" THEN b.session.id ELSE Absent>>
FirstOf(b, Usable(_)) ==
    LET c == Candidates(b)
        hits == {i \in 1..Len(c) : Usable(c[i])}
    IN  IF hits = {} THEN Str("default-session")
        ELSE c[CHOOSE i \in hits : \A j \in hits : i <= j]
IsPresent(l) == l # Absent
IsTruthy(l) == l \notin {Absent, Null, Str(""), Num("0")}

\* C4 as claimed: the sessionId of the submit-run request is the first of
\* session_id, sessionId, id, session.id that is present in the step-1
\* response, and the default only if none is present.
C4_AsClaimed ==
    \A i \in RunSseRequests :
        issued[i].body.sessionId = FirstOf(ValueOf("create_session"), IsPresent)

\* C4: the sessionId of the submit-run request is the first of session_id,
\* sessionId, id, session.id whose value in the step-1 response is truthy
\* (present and not null, empty or zero), and the default identifier only if
\* none of the four is truthy.
C4_SessionIdFirstTruthy ==
    \A i \in RunSseRequests :
        /\ issued[i].body.has
        /\ issued[i].body.sessionId = FirstOf(ValueOf("create_session"), IsTruthy)

C4_Witness ==
    \E i \in RunSseRequests :
        /\ ValueOf("create_session").session_id = Str("")
        /\ ValueOf("create_session").sessionId = Absent
        /\ ValueOf("create_session").id = Str("sess-42")
        /\ issued[i].body.sessionId = Str("sess-42")

\* C5 as claimed: no exception ever escapes the handler, and a returned
\* result carries a status field.
C5_AsClaimed ==
    /\ pc.at # "raised"
    /\ pc.at = "returned" => HasKey("status")

\* C6 as claimed: the submit-run request is always sent with streaming =
\* false, and its message is the placeholder unless the caller supplied one.
C6_AsClaimed ==
    \A i \in RunSseRequests :
        /\ issued[i].body.streaming = FALSE
        /\ issued[i].body.newMessage =
              IF payload.new_message = "custom" THEN "custom" ELSE "default"

\* C6: the submit-run request is sent with the streaming value the caller
\* supplied, and with false only when the caller supplied none (no payload or
\* streaming null); its message is the placeholder unless the caller
\* supplied a non-empty new_message.
C6_StreamingAsSupplied ==
    \A i \in RunSseRequests :
        /\ issued[i].body.streaming = (payload.streaming = "true")
        /\ payload.streaming = "none" => issued[i].body.streaming = FALSE
        /\ issued[i].body.newMessage =
              IF payload.new_message = "custom" THEN "custom" ELSE "default"

C6_Witness ==
    \E i \in RunSseRequests :
        /\ payload.streaming = "true"
        /\ payload.new_message = "empty"
        /\ issued[i].body.streaming = TRUE
        /\ issued[i].body.newMessage = "default"

\* C7: at most one call is outstanding at any time; the i-th request issued
\* is that of step i (create-session, list-eval-sets, list-eval-results,
\* list-sessions, submit-run); and a request is issued only when every
\* earlier step has completed, with a success record or an error record.
C7_OneCallAtATime ==
    /\ Cardinality(outstanding) <= 1
    /\ Len(issued) <= 5
    /\ \A i \in 1..Len(issued) :
          /\ issued[i].step = i
          /\ \A j \in 1..(i - 1) :
                /\ j \notin outstanding
                /\ HasKey(SuccessKeys[j]) \/ HasKey(ErrorKeys[j])

C7_Witness ==
    /\ Len(issued) = 5
    /\ outstanding = {5}
    /\ HasKey("eval_results_error")
    /\ HasKey("eval_sets")

\* C8: the step log is append-only and in execution order.  No step removes
\* or changes an item already in results; when the request of step k+1 is
\* issued the record of step k is already there; and the step records
\* appear in results in the order of their steps.
RecordStep(key) ==
    IF \E k \in 1..5 : key \in {SuccessKeys[k], ErrorKeys[k]}
      THEN CHOOSE k \in 1..5 : key \in {SuccessKeys[k], ErrorKeys[k]}
      ELSE 6
LogInOrder ==
    /\ \A i \in 2..Len(issued) :
          HasKey(SuccessKeys[i - 1]) \/ HasKey(ErrorKeys[i - 1])
    /\ \A i, j \in 1..Len(results) :
          i < j => RecordStep(results[i].key) < RecordStep(results[j].key)
LogOnlyGrows ==
    /\ Len(results') >= Len(results)
    /\ \A i \in 1..Len(results) : results'[i] = results[i]
C8_AppendOnlyLog == [](LogInOrder) /\ [][LogOnlyGrows]_vars

C8_Witness ==
    /\ pc.at = "returned"
    /\ Len(results) = 6
    /\ results[2].key = "eval_sets_error"
    /\ results[3].key = "eval_results"
    /\ results[6].key = "status"

(***************************************************************************)
(* Properties of the persona pipeline.                                     *)
(***************************************************************************)
\* The wave sizes under which the units would fall into more than one wave.
WaveSizes == 1..(Len(sub_agents) - 1)

\* C9 as claimed: whatever the wave size, the number of simultaneously
\* outstanding persona units never exceeds it.
C9_AsClaimed ==
    \A waveSize \in WaveSizes : Cardinality(Outstanding) <= waveSize

\* C9: the persona units form one single wave.  Their number outstanding at
\* a time is bounded by the number of units only, and a unit that has not
\* begun is never held back by the units that are outstanding: it may begin
\* at once.
C9_SingleWave ==
    /\ Cardinality(Outstanding) <= Len(sub_agents)
    /\ \A u \in Units :
          (stage = "PARALLEL" /\ unit[u] = "pending")
              => ENABLED BeginPersona(u)

C9_Witness ==
    /\ stage = "PARALLEL"
    /\ Outstanding = Units
    /\ Cardinality(Units) = Len(sub_agents)
    /\ Cardinality(Units) > 1

\* C10: merger_agent starts only after every persona unit has ended: while
\* the merger is running or has ended, no persona unit is waiting to begin
\* or in flight.
C10_MergerAfterAllUnits ==
    merger # "idle" =>
        \A u \in Units : unit[u] \notin {"idle", "pending", "running"}

C10_Witness ==
    /\ merger = "running"
    /\ \A u \in Units : unit[u] = "done"
    /\ \A u \in Units : OutputKey(u) \in state

\* C11 as claimed: a persona unit that failed leaves the run going: no other
\* unit is cancelled, the run is not ended, and the failure is recorded in
\* the session state under the failed unit's own output key.
C11_AsClaimed ==
    \A u \in Units :
        unit[u] = "failed" =>
            /\ stage # "FAILED"
            /\ \A v \in Units \ {u} : unit[v] # "cancelled"
            /\ OutputKey(u) \in state

\* The partition C12 describes, as the sizes of its waves: ceil(n/waveSize)
\* waves, all of waveSize units except the last, which takes the rest.
CeilDiv(a, b) == (a + b - 1) \div b
ClaimedWaveSizes(n, waveSize) ==
    [k \in 1..CeilDiv(n, waveSize) |-> Min(waveSize, n - (k - 1) * waveSize)]
WaveLengths == [k \in 1..Len(Waves) |-> Len(Waves[k])]

\* C12 as claimed: whatever the wave size, the persona units are dispatched
\* in ceil(N/waveSize) waves of the sizes the partition gives (<<6, 6, 1>>
\* for 13 units and waveSize 6).
C12_AsClaimed ==
    stage # "INIT" =>
        /\ ClaimedWaveSizes(13, 6) = <<6, 6, 1>>
        /\ \A waveSize \in 1..Len(sub_agents) :
              WaveLengths = ClaimedWaveSizes(Len(sub_agents), waveSize)

\* C12: the persona units are dispatched as one wave holding all N of them
\* in roster order, the partition of the claim for waveSize = N only: every
\* unit is at exactly one place of that wave, and once the pipeline runs
\* every unit has been dispatched.
C12_OneWaveOfAll ==
    /\ Len(Waves) = 1
    /\ Waves[1] = sub_agents
    /\ WaveLengths = ClaimedWaveSizes(Len(sub_agents), Len(sub_agents))
    /\ \A u \in Units :
          Cardinality({w \in (1..Len(Waves)) \X (1..Len(sub_agents)) :
                          /\ w[2] <= Len(Waves[w[1]])
                          /\ Waves[w[1]][w[2]] = u}) = 1
    /\ stage # "INIT" => \A u \in Units : unit[u] # "idle"

C12_Witness ==
    /\ stage = "PARALLEL"
    /\ Len(sub_agents) > 1
    /\ \A u \in Units : unit[u] = "pending"

(***************************************************************************)
(* Properties of the persona counts and the roster.                        *)
(***************************************************************************)
RECURSIVE SumSeq(_)
SumSeq(q) == IF q = <<>> THEN 0 ELSE Head(q) + SumSeq(Tail(q))
counts == [t \in 1..Len(PERSONA_TYPE_COUNTS) |-> PERSONA_TYPE_COUNTS[t][2]]
Requested == [t \in Types |-> TypeCount(t)]
Created == {u \in Units : unit[u] # "idle"}

\* C13 as claimed: whatever total is asked for, the counts used for the run
\* are all >= 0 and sum exactly to it.
C13_AsClaimed ==
    stage # "INIT" =>
        \A total \in {0, 7, 50} :
            /\ \A t \in 1..Len(counts) : counts[t] >= 0
            /\ SumSeq(counts) = total

\* C13: the counts are the fixed table PERSONA_TYPE_COUNTS, which nothing
\* computes from a total: they are all >= 0 and sum exactly to 50, the total
\* the table is written for, and the run creates one persona unit for each
\* unit of the counts it uses.
C13_CountsSumToFifty ==
    /\ \A t \in 1..Len(counts) : counts[t] >= 0
    /\ SumSeq(counts) = 50
    /\ Len(roster) = SumSeq(Requested)
    /\ stage # "INIT" => Cardinality(Created) = SumSeq(Requested)

C13_Witness ==
    /\ stage = "DONE"
    /\ SumSeq(Requested) > 1
    /\ Cardinality(Created) = SumSeq(Requested)

\* The allocation C14 describes: weights are the proportions over a common
\* denominator; each category gets the floor of its exact share, and the
\* units that remain go, one each, to the categories of largest remainder,
\* the category listed first winning a tie.
Share(weights, total, i) == (total * weights[i]) \div SumSeq(weights)
Remainder(weights, total, i) == (total * weights[i]) % SumSeq(weights)
Remaining(weights, total) ==
    total - SumSeq([i \in 1..Len(weights) |-> Share(weights, total, i)])
Rank(weights, total, i) ==
    1 + Cardinality({j \in 1..Len(weights) :
            \/ Remainder(weights, total, j) > Remainder(weights, total, i)
            \/ /\ Remainder(weights, total, j) = Remainder(weights, total, i)
               /\ j < i})
LargestRemainder(weights, total) ==
    [i \in 1..Len(weights) |->
        Share(weights, total, i)
          + (IF Rank(weights, total, i) <= Remaining(weights, total)
               THEN 1 ELSE 0)]
EqualWeights == [t \in 1..Len(PERSONA_TYPE_COUNTS) |-> 1]

\* C14 as claimed: the counts used for the run are the largest-remainder
\* allocation of the proportions and total asked for: for a: 0.5, b: 0.3,
\* c: 0.2 and total 7 they are 4, 2, 1.
C14_AsClaimed ==
    stage # "INIT" =>
        /\ LargestRemainder(<<5, 3, 2>>, 7) = <<4, 2, 1>>
        /\ \A asked \in {<< <<5, 3, 2>>, 7 >>, << EqualWeights, 50 >>} :
              counts = LargestRemainder(asked[1], asked[2])

\* C14: the counts of the fixed table are what the largest-remainder
\* allocation gives for total 50 over the twelve persona types in equal
\* proportions: every type gets floor(50/12) = 4, and the 2 remaining units
\* go to the two types listed first, all remainders being equal.  The run
\* creates the units of the types in that order.
C14_TableIsLargestRemainder ==
    /\ counts = LargestRemainder(EqualWeights, 50)
    /\ \A t \in 1..Len(counts) :
          counts[t] = 50 \div Len(counts) + (IF t <= 50 % Len(counts) THEN 1 ELSE 0)
    /\ stage # "INIT" =>
          \A t \in Types :
              Cardinality({u \in Created :
                  \E i \in 1..counts[t] :
                      u = AgentName([personaId |->
                              PersonaId(PERSONA_TYPE_COUNTS[t][1], i)])})
                = Min(counts[t], MaxPerType)

C14_Witness ==
    /\ stage = "PARALLEL"
    /\ counts[1] > counts[Len(counts)]
    /\ \E u \in Created : unit[u] = "running"
    /\ \E u \in Created : unit[u] = "done"

\* The place in the roster of persona i of the t-th type.
Place(t, i) == SumSeq([k \in 1..(t - 1) |-> Requested[k]]) + i

\* C15: the roster holds exactly sum(counts) descriptors, those of the first
\* type first, within a type in the order 1..count; the descriptor of
\* persona i of a type has the id "<type>_<i>"; the ids are pairwise
\* distinct, so that the run has one persona unit per descriptor.
C15_RosterOrderAndIds ==
    /\ Len(roster) = SumSeq(Requested)
    /\ \A t \in Types : \A i \in 1..Requested[t] :
          roster[Place(t, i)].personaId
              = PERSONA_TYPE_COUNTS[t][1] \o "_" \o ToString(i)
    /\ \A a, b \in 1..Len(roster) :
          a # b => roster[a].personaId # roster[b].personaId
    /\ Cardinality(DOMAIN unit) = SumSeq(Requested)
    /\ DOMAIN unit = {roster[a].personaId \o "_timeline" : a \in 1..Len(roster)}

C15_Witness ==
    /\ stage = "PARALLEL"
    /\ Len(roster) > 2
    /\ roster[1].personaId = "the_planner_1"
    /\ roster[Len(roster)].personaId # roster[1].personaId
    /\ unit[roster[Len(roster)].personaId \o "_timeline"] = "running"
    /\ unit[roster[1].personaId \o "_timeline"] = "pending"

\* C16: the attributes generated for an id depend on the id alone: two
\* descriptors generated for the same id are identical, whatever was
\* generated before each of them, and each is the descriptor the roster
\* built in table order holds for that id.
C16_AttributesDependOnIdOnly ==
    /\ \A a, b \in 1..Len(generated) :
          generated[a].personaId = generated[b].personaId
              => generated[a] = generated[b]
    /\ \A a \in 1..Len(generated) :
          \E k \in 1..Len(roster) : generated[a] = roster[k]

C16_Witness ==
    /\ Len(generated) >= 3
    /\ generated[1].personaId = generated[3].personaId
    /\ generated[2].personaId # generated[1].personaId
    /\ generated[2].demographics # generated[1].demographics

(***************************************************************************)
(* Properties of the session state.                                        *)
(***************************************************************************)
KeyOf(u) == u \o "_output"
Done == {u \in Units : unit[u] = "done"}
PersonaEntries == state \ {"final_summary"}

\* C17: the output keys of the persona units are pairwise distinct and
\* differ from the merger's key, and the entries of the session state are
\* exactly one per unit that has written, each under the unit's own key: no
\* write has landed on another unit's entry.
C17_DistinctOutputKeys ==
    /\ \A u, v \in Units : u # v => KeyOf(u) # KeyOf(v)
    /\ \A u \in Units : KeyOf(u) # "final_summary"
    /\ PersonaEntries = {KeyOf(u) : u \in Done}
    /\ Cardinality(PersonaEntries) = Cardinality(Done)
    /\ "final_summary" \in state <=> merger = "done"

C17_Witness ==
    /\ stage = "DONE"
    /\ Cardinality(Units) > 1
    /\ Cardinality(state) = Cardinality(Units) + 1

(***************************************************************************)
(* Properties of the pipeline's stages.                                    *)
(***************************************************************************)
\* C19 as claimed: once persona units have been dispatched the run has no
\* terminal error state: the failure of a unit's task never ends the run, so
\* the stage is one on the way to DONE.
C19_AsClaimed ==
    (\E u \in Units : unit[u] # "idle") =>
        /\ stage # "FAILED"
        /\ stage \in {"PARALLEL", "MERGER", "DONE"}

(***************************************************************************)
(* Properties of the flow simulator: bodies that are not JSON.             *)
(***************************************************************************)
\* Step k is over and the response it got has a body that does not decode.
NonJsonAnswer(k) ==
    /\ resp.step = k /\ resp.kind = "text"
    /\ Len(issued) = k /\ outstanding = {}

\* C20: a response whose body is not JSON is no failure of its step: the
\* step has the success record {text: raw body} and no error record, the
\* handler goes on to the next step (after step 5, to its return), and when
\* the create-session record is such a {text: ...} object the session id is
\* the default one, which every /run_sse request carries.
C20_NonJsonIsSuccess ==
    /\ \A k \in 1..5 :
          NonJsonAnswer(k) =>
              /\ HasKey(SuccessKeys[k])
              /\ ValueOf(SuccessKeys[k]).text = Str(resp.raw)
              /\ ~HasKey(ErrorKeys[k])
              /\ ~HasKey("status") \/ ValueOf("status") = Str("ok")
              /\ IF k < 5 THEN pc = At("call", k + 1)
                          ELSE pc \in {At("final", 5), At("returned", 5)}
    /\ (HasKey("create_session") /\ ValueOf("create_session").text # Absent) =>
          /\ session_id = Str("default-session")
          /\ \A i \in RunSseRequests :
                issued[i].body.sessionId = Str("default-session")

C20_Witness ==
    /\ pc.at = "returned"
    /\ HasKey("create_session") /\ HasKey("eval_results") /\ HasKey("status")
    /\ ValueOf("create_session").text = Str("<html>")
    /\ ValueOf("eval_results").text = Str("<html>")
    /\ NonJsonAnswer(5)
    /\ ValueOf("status") = Str("ok")
    /\ \E i \in RunSseRequests :
          issued[i].body.sessionId = Str("default-session")

(***************************************************************************)
(* Properties of the flow simulator: the returned result.                  *)
(***************************************************************************)
\* C21: when the handler returns, the result has a status, which is ok or
\* partial_failure, and it is partial_failure exactly when the record
\* create_session_error is present; at no time does the result hold both the
\* success record and the error record of a step.
C21_StatusAtReturn ==
    /\ pc.at = "returned" =>
          /\ HasKey("status")
          /\ ValueOf("status") \in {Str("ok"), Str("partial_failure")}
          /\ ValueOf("status") = Str("partial_failure")
                <=> HasKey("create_session_error")
    /\ \A k \in 1..5 : ~(HasKey(SuccessKeys[k]) /\ HasKey(ErrorKeys[k]))

C21_Witness ==
    /\ pc.at = "returned"
    /\ HasKey("status") /\ ValueOf("status") = Str("ok")
    /\ HasKey("create_session") /\ ~HasKey("create_session_error")
    /\ HasKey("eval_sets_error") /\ ~HasKey("eval_sets")
    /\ HasKey("run_sse") /\ ~HasKey("run_sse_error")

(***************************************************************************)
(* Properties of the flow simulator: responses with an error status.       *)
(***************************************************************************)
\* The create-session call returned a response, and no later call has.
CreateAnswered == resp.step = 1 /\ resp.status_code \in StatusCodes
\* The body of the response has none of session_id, sessionId, id, session.id.
CarriesNoIdKey ==
    \/ resp.kind = "text"
    \/ /\ resp.json.session_id = Absent /\ resp.json.sessionId = Absent
       /\ resp.json.id = Absent /\ resp.json.session.id = Absent

\* C22 as claimed: when the create-session call returns a response, whatever
\* its status code, step 1 has not failed and the run is not aborted: no
\* exception leaves the handler, a finished run has attempted each of steps
\* 2-5, and when the body has none of the id keys every /run_sse request
\* carries "default-session".
C22_AsClaimed ==
    CreateAnswered =>
        /\ ~HasKey("create_session_error")
        /\ pc.at # "raised"
        /\ RunOver => \A k \in 2..5 : Attempted(k)
        /\ CarriesNoIdKey =>
              \A i \in RunSseRequests :
                  issued[i].body.sessionId = Str("default-session")

====
